---- MODULE Spec2Model ----
(***************************************************************************)
(* Model of the polytest example programs:                                 *)
(*   - examples/shapes/implementations/python/__init__.py                  *)
(*     (Shape, Polygon, Circle, Rectangle, Triangle)                       *)
(*   - examples/calculator/generated/pytest/test_16_bit.py (add, multiply) *)
(*                                                                         *)
(* Python values are records [ty, m, e, p, rt]:                            *)
(*   ty  the Python type name ("bool", "int", "float", "complex", "str",   *)
(*       "NoneType", "list")                                               *)
(*   for a number the value is  m / 2^e * pi^p, or, when rt is TRUE, the   *)
(*   square root of m / 2^e (a square root that is not itself a dyadic     *)
(*   rational).  m / 2^e is kept normalised (m odd or e = 0), so that      *)
(*   Python's == on numbers is equality of (m, e, p, rt).  Dyadic          *)
(*   rationals are the values binary floating point holds exactly; the     *)
(*   bounds keep every intermediate result far inside the 53-bit mantissa, *)
(*   where float arithmetic on them is exact.  A complex number is         *)
(*   modelled with imaginary part 0.                                       *)
(***************************************************************************)
EXTENDS Integers, Sequences, FiniteSets, TLC

VARIABLES
    obj,      \* the instance under use, NoObj before construction
    ctor,     \* the constructor call made: [cls, args]
    lastOp,   \* the operation executed last: "none", "init" or a method name
    exc,      \* the exception the last operation raised, "None" for none
    ret,      \* the value the last operation returned
    seen,     \* per method, the outcome of its first call on the instance
    again,    \* the last call repeated a method already called before
    calcOp,   \* calculator: the function called last, "none" before
    calcA,    \* calculator: its arguments
    calcB,
    calcRet   \* calculator: its result

vars == <<obj, ctor, lastOp, exc, ret, seen, again, calcOp, calcA, calcB, calcRet>>
shapeVars == <<obj, ctor, lastOp, exc, ret, seen, again>>
calcVars == <<calcOp, calcA, calcB, calcRet>>

\* ------------------------------------------------------------------ bounds
\* Integer arguments range over -MaxNeg .. MaxNum.
MaxNeg == 2
MaxNum == 5
\* Float arguments k/2 for odd k in 1 .. MaxHalf.
MaxHalf == 2
\* Calculator arguments: 0 .. MaxSmall, MAX_VALUE - MaxSmall .. MAX_VALUE and
\* the values around 2^15 and 2^8.
MaxSmall == 4

\* The arguments the repository's tests construct with.
RADIUS == 7
TEST_WIDTH == 10

\* ---------------------------------------------------------- Python values
PyVal(ty, m, e, p, rt) == [ty |-> ty, m |-> m, e |-> e, p |-> p, rt |-> rt]

None == PyVal("NoneType", 0, 0, 0, FALSE)
PyInt(n) == PyVal("int", n, 0, 0, FALSE)
PyBool(b) == PyVal("bool", IF b THEN 1 ELSE 0, 0, 0, FALSE)
PyStr == PyVal("str", 0, 0, 0, FALSE)
PyList == PyVal("list", 0, 0, 0, FALSE)

RECURSIVE Pow2(_)
Pow2(e) == IF e = 0 THEN 1 ELSE 2 * Pow2(e - 1)

\* m / 2^e in lowest terms.
RECURSIVE Norm(_, _)
Norm(m, e) ==
    IF e > 0 /\ m % 2 = 0 THEN Norm(m \div 2, e - 1) ELSE <<m, e>>

\* Python's numeric tower: bool < int < float < complex.
Rank(ty) ==
    CASE ty = "bool" -> 0
      [] ty = "int" -> 1
      [] ty = "float" -> 2
      [] ty = "complex" -> 3

TypeOfRank(r) ==
    CASE r = 0 -> "int"
      [] r = 1 -> "int"
      [] r = 2 -> "float"
      [] r = 3 -> "complex"

Max(a, b) == IF a >= b THEN a ELSE b

\* The result type of a binary arithmetic operator (bool is promoted to int).
Coerce(a, b) == TypeOfRank(Max(Rank(a.ty), Rank(b.ty)))

MkNum(ty, m, e, p) ==
    LET n == Norm(m, e) IN PyVal(ty, n[1], n[2], p, FALSE)

PyFloatHalves(k) == MkNum("float", k, 1, 0)

\* a + b, a - b on numbers without a pi factor.
PyAdd(a, b) ==
    LET e == Max(a.e, b.e)
    IN  MkNum(Coerce(a, b), a.m * Pow2(e - a.e) + b.m * Pow2(e - b.e), e, a.p)

PySub(a, b) ==
    LET e == Max(a.e, b.e)
    IN  MkNum(Coerce(a, b), a.m * Pow2(e - a.e) - b.m * Pow2(e - b.e), e, a.p)

\* a * b
PyMul(a, b) == MkNum(Coerce(a, b), a.m * b.m, a.e + b.e, a.p + b.p)

\* a / 2: true division, an int operand gives a float.
PyDiv2(a) == MkNum(TypeOfRank(Max(Rank(a.ty), 2)), a.m, a.e + 1, a.p)

\* a == b: numbers compare by value, whatever their types.
PyEq(a, b) == a.m = b.m /\ a.e = b.e /\ a.p = b.p /\ a.rt = b.rt

\* isinstance(v, (int, float, complex)); bool is a subclass of int.
IsNumber(v) == v.ty \in {"bool", "int", "float", "complex"}

\* math.pi
math_pi == PyVal("float", 1, 0, 1, FALSE)

\* The largest k with k * k <= n.
RECURSIVE ISqrtFrom(_, _)
ISqrtFrom(n, k) == IF (k + 1) * (k + 1) > n THEN k ELSE ISqrtFrom(n, k + 1)

ISqrt(n) == ISqrtFrom(n, 0)

\* math.sqrt(x) for a real x without pi factor: raises ValueError ("math
\* domain error") when x < 0; otherwise the root, which is a dyadic rational
\* when x is the square of one and an irrational root (rt) otherwise.
math_sqrt(x) ==
    IF x.m < 0
    THEN [exc |-> "ValueError", ret |-> None]
    ELSE LET m2 == IF x.e % 2 = 1 THEN 2 * x.m ELSE x.m
             e2 == IF x.e % 2 = 1 THEN x.e + 1 ELSE x.e
             r == ISqrt(m2)
         IN  IF r * r = m2
             THEN [exc |-> "None", ret |-> MkNum("float", r, e2 \div 2, 0)]
             ELSE [exc |-> "None", ret |-> PyVal("float", x.m, x.e, 0, TRUE)]

\* ------------------------------------------------------------ the classes
\* A method call is modelled by its outcome [self, exc, ret]: the instance
\* after the call, the exception raised ("None" for none) and the value
\* returned.

NoObj == [cls |-> "None"]

Return(self, v) == [self |-> self, exc |-> "None", ret |-> v]
Raise(self, e) == [self |-> self, exc |-> e, ret |-> None]

\* class Shape(ABC), class Polygon(Shape), and the concrete classes.
Bases(cls) ==
    CASE cls = "Circle" -> {"Shape"}
      [] cls = "Rectangle" -> {"Polygon", "Shape"}
      [] cls = "Triangle" -> {"Polygon", "Shape"}

IsPolygon(self) == "Polygon" \in Bases(self.cls)

\* The methods each class defines.
Methods(cls) ==
    CASE cls = "Circle" -> {"area", "perimeter", "diameter"}
      [] cls = "Rectangle" ->
            {"area", "perimeter", "edge_count", "vertex_count", "is_square"}
      [] cls = "Triangle" -> {"area", "perimeter", "edge_count", "vertex_count"}

AllMethods ==
    {"area", "perimeter", "diameter", "edge_count", "vertex_count", "is_square"}

\* class Circle
Circle_init(radius) ==
    IF ~IsNumber(radius)
    THEN Raise(NoObj, "ValueError")
    ELSE Return([cls |-> "Circle", radius |-> radius], None)

Circle_area(self) == Return(self, PyMul(PyMul(math_pi, self.radius), self.radius))

\* Variant: the factor 2 left out.
Circle_perimeter_radius_only(self) == Return(self, PyMul(math_pi, self.radius))

Circle_perimeter(self) == Return(self, PyMul(PyMul(PyInt(2), math_pi), self.radius))

\* Variant: the radius doubled in place (self.radius *= 2).
Circle_diameter_in_place(self) ==
    LET d == PyMul(PyInt(2), self.radius)
    IN  Return([self EXCEPT !.radius = d], d)

Circle_diameter(self) == Return(self, PyMul(PyInt(2), self.radius))

\* class Rectangle
Rectangle_init(width, height) ==
    Return([cls |-> "Rectangle", width |-> width, height |-> height], None)

Rectangle_area(self) == Return(self, PyMul(self.width, self.height))

\* Variant: the parentheses left out, 2 * width + height.
Rectangle_perimeter_unparenthesised(self) ==
    Return(self, PyAdd(PyMul(PyInt(2), self.width), self.height))

Rectangle_perimeter(self) ==
    Return(self, PyMul(PyInt(2), PyAdd(self.width, self.height)))

Rectangle_edge_count(self) == Return(self, PyInt(4))

Rectangle_vertex_count(self) == Return(self, PyInt(4))

\* Variant: comparison with a tolerance, abs(width - height) <= 0.5.
Rectangle_is_square_tolerant(self) ==
    Return(self, PyBool(PySub(self.width, self.height).m * Pow2(1 - PySub(self.width, self.height).e) \in -1 .. 1))

Rectangle_is_square(self) == Return(self, PyBool(PyEq(self.width, self.height)))

\* class Triangle
\* Variant: the triangle inequality validated in the constructor.
Triangle_init_eager(side_a, side_b, side_c) ==
    IF \/ PySub(PyAdd(side_b, side_c), side_a).m <= 0
       \/ PySub(PyAdd(side_a, side_c), side_b).m <= 0
       \/ PySub(PyAdd(side_a, side_b), side_c).m <= 0
    THEN Raise(NoObj, "ValueError")
    ELSE Return([cls |-> "Triangle", side_a |-> side_a, side_b |-> side_b,
                 side_c |-> side_c], None)

Triangle_init(side_a, side_b, side_c) ==
    Return([cls |-> "Triangle", side_a |-> side_a, side_b |-> side_b,
            side_c |-> side_c], None)

\* Variant: a radicand of zero rejected as well.
Triangle_area_strict(self) ==
    LET s == PyDiv2(PyAdd(PyAdd(self.side_a, self.side_b), self.side_c))
        x == PyMul(PyMul(PyMul(s, PySub(s, self.side_a)), PySub(s, self.side_b)),
                   PySub(s, self.side_c))
        r == math_sqrt(x)
    IN  IF x.m <= 0 THEN Raise(self, "ValueError")
        ELSE [self |-> self, exc |-> r.exc, ret |-> r.ret]

\* Variant: the perimeter used for the semi-perimeter (the / 2 left out).
Triangle_area_no_half(self) ==
    LET s == PyAdd(PyAdd(self.side_a, self.side_b), self.side_c)
        x == PyMul(PyMul(PyMul(s, PySub(s, self.side_a)), PySub(s, self.side_b)),
                   PySub(s, self.side_c))
        r == math_sqrt(x)
    IN  [self |-> self, exc |-> r.exc, ret |-> r.ret]

Triangle_area(self) ==
    LET s == PyDiv2(PyAdd(PyAdd(self.side_a, self.side_b), self.side_c))
        x == PyMul(PyMul(PyMul(s, PySub(s, self.side_a)), PySub(s, self.side_b)),
                   PySub(s, self.side_c))
        r == math_sqrt(x)
    IN  [self |-> self, exc |-> r.exc, ret |-> r.ret]

Triangle_perimeter(self) ==
    Return(self, PyAdd(PyAdd(self.side_a, self.side_b), self.side_c))

\* Variant: a collapsed triangle (one side the sum of the others) counted
\* as a segment with 2 edges.
Triangle_edge_count_collapsed(self) ==
    IF \/ PyEq(PyAdd(self.side_b, self.side_c), self.side_a)
       \/ PyEq(PyAdd(self.side_a, self.side_c), self.side_b)
       \/ PyEq(PyAdd(self.side_a, self.side_b), self.side_c)
    THEN Return(self, PyInt(2))
    ELSE Return(self, PyInt(3))

Triangle_edge_count(self) == Return(self, PyInt(3))

Triangle_vertex_count(self) == Return(self, PyInt(3))

\* Method lookup on the instance's class.
Shape_area(self) ==
    CASE self.cls = "Circle" -> Circle_area(self)
      [] self.cls = "Rectangle" -> Rectangle_area(self)
      [] self.cls = "Triangle" -> Triangle_area(self)

Shape_perimeter(self) ==
    CASE self.cls = "Circle" -> Circle_perimeter(self)
      [] self.cls = "Rectangle" -> Rectangle_perimeter(self)
      [] self.cls = "Triangle" -> Triangle_perimeter(self)

Polygon_edge_count(self) ==
    CASE self.cls = "Rectangle" -> Rectangle_edge_count(self)
      [] self.cls = "Triangle" -> Triangle_edge_count(self)

Polygon_vertex_count(self) ==
    CASE self.cls = "Rectangle" -> Rectangle_vertex_count(self)
      [] self.cls = "Triangle" -> Triangle_vertex_count(self)

\* ---------------------------------------------------------- the calculator
MAX_VALUE == 65535

\* (a * b) % n on Python's unbounded integers, evaluated bytewise on a so
\* that no intermediate product leaves 32 bits.
MulMod(a, b, n) == ((((a \div 256) * b) % n) * 256 + (a % 256) * b) % n

\* Variant: MAX_VALUE taken for the modulus.
add_mod_max_value(a, b) == (a + b) % MAX_VALUE

add(a, b) == (a + b) % (MAX_VALUE + 1)

multiply(a, b) == MulMod(a, b, MAX_VALUE + 1)

\* ------------------------------------------------------------- arguments
IntArgs == {PyInt(n) : n \in (0 - MaxNeg) .. MaxNum}
FloatArgs == {PyFloatHalves(k) : k \in 1 .. MaxHalf}
RealArgs == IntArgs \cup FloatArgs

RadiusArgs ==
    RealArgs \cup {PyInt(RADIUS), PyBool(TRUE), PyBool(FALSE),
                   PyVal("complex", 0, 0, 0, FALSE), PyVal("complex", 2, 0, 0, FALSE),
                   PyStr, None, PyList}

WidthArgs == RealArgs \cup {PyInt(TEST_WIDTH)}

CalcArgs ==
    (0 .. MaxSmall) \cup ((MAX_VALUE - MaxSmall) .. MAX_VALUE)
        \cup {255, 256, 257, 32767, 32768}

\* ------------------------------------------------------------------- state
NotSeen == [done |-> FALSE, exc |-> "None", ret |-> None]

Init ==
    /\ obj = NoObj
    /\ ctor = [cls |-> "None", args |-> <<>>]
    /\ lastOp = "none"
    /\ exc = "None"
    /\ ret = None
    /\ seen = [op \in AllMethods |-> NotSeen]
    /\ again = FALSE
    /\ calcOp = "none"
    /\ calcA = 0
    /\ calcB = 0
    /\ calcRet = 0

\* A constructor call: cls(*args) with outcome r.
Construct(cls, args, r) ==
    /\ ctor' = [cls |-> cls, args |-> args]
    /\ obj' = r.self
    /\ exc' = r.exc
    /\ ret' = r.ret
    /\ lastOp' = "init"
    /\ UNCHANGED <<seen, again>>
    /\ UNCHANGED calcVars

NewCircle ==
    /\ lastOp = "none"
    /\ \E radius \in RadiusArgs :
            Construct("Circle", <<radius>>, Circle_init(radius))

NewRectangle ==
    /\ lastOp = "none"
    /\ \E width \in WidthArgs, height \in WidthArgs :
            Construct("Rectangle", <<width, height>>, Rectangle_init(width, height))

NewTriangle ==
    /\ lastOp = "none"
    /\ \E side_a \in RealArgs, side_b \in RealArgs, side_c \in RealArgs :
            Construct("Triangle", <<side_a, side_b, side_c>>,
                      Triangle_init(side_a, side_b, side_c))

\* A method call obj.op() with outcome r.
Call(op, r) ==
    /\ obj' = r.self
    /\ exc' = r.exc
    /\ ret' = r.ret
    /\ lastOp' = op
    /\ again' = seen[op].done
    /\ seen' = IF seen[op].done
               THEN seen
               ELSE [seen EXCEPT ![op] = [done |-> TRUE, exc |-> r.exc, ret |-> r.ret]]
    /\ UNCHANGED ctor
    /\ UNCHANGED calcVars

HasMethod(op) == obj.cls # "None" /\ op \in Methods(obj.cls)

CallArea == HasMethod("area") /\ Call("area", Shape_area(obj))

CallPerimeter == HasMethod("perimeter") /\ Call("perimeter", Shape_perimeter(obj))

CallDiameter == HasMethod("diameter") /\ Call("diameter", Circle_diameter(obj))

CallEdgeCount == HasMethod("edge_count") /\ Call("edge_count", Polygon_edge_count(obj))

CallVertexCount ==
    HasMethod("vertex_count") /\ Call("vertex_count", Polygon_vertex_count(obj))

CallIsSquare == HasMethod("is_square") /\ Call("is_square", Rectangle_is_square(obj))

Next ==
    \/ NewCircle
    \/ NewRectangle
    \/ NewTriangle
    \/ CallArea
    \/ CallPerimeter
    \/ CallDiameter
    \/ CallEdgeCount
    \/ CallVertexCount
    \/ CallIsSquare

Spec == Init /\ [][Next]_vars

\* The calculator functions, called with arguments from CalcArgs.
CallAdd ==
    \E a \in CalcArgs, b \in CalcArgs :
        /\ calcOp' = "add"
        /\ calcA' = a
        /\ calcB' = b
        /\ calcRet' = add(a, b)
        /\ UNCHANGED shapeVars

CallMultiply ==
    \E a \in CalcArgs, b \in CalcArgs :
        /\ calcOp' = "multiply"
        /\ calcA' = a
        /\ calcB' = b
        /\ calcRet' = multiply(a, b)
        /\ UNCHANGED shapeVars

NextCalc == CallAdd \/ CallMultiply

SpecCalc == Init /\ [][NextCalc]_vars

\* ------------------------------------------------------------ properties
\* The exact value of a number v in units of 1 / 2^k (v.e <= k), ignoring
\* its pi factor.
Scaled(v, k) == v.m * Pow2(k - v.e)

\* v is a plain real number (no pi factor, no irrational root).
IsPlain(v) == IsNumber(v) /\ v.p = 0 /\ ~v.rt

\* v * v, exact also for an irrational root.
Square(v) == IF v.rt THEN PyVal("float", v.m, v.e, 0, FALSE) ELSE PyMul(v, v)

\* The constructor arguments in halves.
ArgH(i) == Scaled(ctor.args[i], 1)

IsCircle == ctor.cls = "Circle" /\ obj.cls = "Circle"
IsRectangle == ctor.cls = "Rectangle" /\ obj.cls = "Rectangle"
IsTriangle == ctor.cls = "Triangle" /\ obj.cls = "Triangle"

\* The strict triangle inequality on the constructor arguments.
TriangleInequality ==
    /\ ArgH(1) < ArgH(2) + ArgH(3)
    /\ ArgH(2) < ArgH(1) + ArgH(3)
    /\ ArgH(3) < ArgH(1) + ArgH(2)

\* (a+b+c)(-a+b+c)(a-b+c)(a+b-c) on the arguments in halves: 256 times
\* Heron's radicand s(s-a)(s-b)(s-c).
Heron256 ==
    (ArgH(1) + ArgH(2) + ArgH(3)) * (ArgH(2) + ArgH(3) - ArgH(1))
        * (ArgH(1) + ArgH(3) - ArgH(2)) * (ArgH(1) + ArgH(2) - ArgH(3))

\* C1 (as claimed): Circle(radius) with a non-numeric radius raises a
\* TypeError and produces no instance.
C1_NonNumberRaisesTypeError ==
    (ctor.cls = "Circle" /\ lastOp = "init" /\ ~IsNumber(ctor.args[1]))
        => (exc = "TypeError" /\ obj.cls = "None")

\* C2 (as claimed): Triangle.area() raises the domain error exactly when the
\* sides fail the strict triangle inequality.
C2_ErrorIffInequalityFails ==
    (IsTriangle /\ lastOp = "area")
        => ((exc = "ValueError") <=> ~TriangleInequality)

\* C2 (amended): Triangle.area() raises the domain error exactly when
\* Heron's radicand s(s-a)(s-b)(s-c) is negative and returns a number
\* otherwise; it returns a number for every triple satisfying the strict
\* triangle inequality, and also for every triple whose radicand is zero or
\* positive although the inequality fails.
C2_ErrorIffNegativeRadicand ==
    (IsTriangle /\ lastOp = "area")
        => /\ (exc = "ValueError") <=> (Heron256 < 0)
           /\ exc \in {"None", "ValueError"}
           /\ exc = "None" => IsNumber(ret)
           /\ TriangleInequality => exc = "None"

\* A degenerate triple, (1, 2, 3) up to order and scale, whose area() has
\* returned 0, and not raised.
C2_Witness ==
    /\ IsTriangle /\ lastOp = "area"
    /\ ArgH(1) = 2 /\ ArgH(2) = 4 /\ ArgH(3) = 6
    /\ exc = "None" /\ PyEq(ret, PyInt(0))

\* C3: a Triangle is constructed whatever the sides, and only area() raises.
C3_LazyValidation ==
    ctor.cls = "Triangle"
        => /\ obj.cls = "Triangle"
           /\ lastOp = "init" => exc = "None"
           /\ exc # "None" => lastOp = "area"
           /\ \A op \in {"perimeter", "edge_count", "vertex_count"} :
                  seen[op].exc = "None"

\* An invalid triangle on which perimeter(), edge_count() and vertex_count()
\* have succeeded and area() has then raised.
C3_Witness ==
    /\ IsTriangle /\ ~TriangleInequality
    /\ \A op \in {"perimeter", "edge_count", "vertex_count"} : seen[op].done
    /\ lastOp = "area" /\ exc = "ValueError" /\ ~again

\* C4: Rectangle(w, h).area() is w * h and perimeter() is 2 * (w + h), for
\* all w and h; Rectangle(10, 4) has area 40 and perimeter 28.
C4_RectangleAreaPerimeter ==
    IsRectangle
        => /\ obj.width = ctor.args[1] /\ obj.height = ctor.args[2]
           /\ lastOp = "area"
                => /\ exc = "None" /\ IsPlain(ret)
                   /\ Scaled(ret, 2) = ArgH(1) * ArgH(2)
           /\ lastOp = "perimeter"
                => /\ exc = "None" /\ IsPlain(ret)
                   /\ Scaled(ret, 1) = 2 * (ArgH(1) + ArgH(2))
           /\ (ctor.args = <<PyInt(10), PyInt(4)>> /\ lastOp = "area")
                => ret = PyInt(40)
           /\ (ctor.args = <<PyInt(10), PyInt(4)>> /\ lastOp = "perimeter")
                => ret = PyInt(28)

\* Rectangle(10, 4) after perimeter() and area().
C4_Witness ==
    /\ IsRectangle /\ ctor.args = <<PyInt(10), PyInt(4)>>
    /\ seen["perimeter"].done /\ lastOp = "area" /\ ret = PyInt(40)

\* C5: Rectangle(w, h).is_square() is True exactly when w == h.
C5_IsSquareIffEqual ==
    (IsRectangle /\ lastOp = "is_square")
        => /\ exc = "None"
           /\ ret \in {PyBool(TRUE), PyBool(FALSE)}
           /\ (ret = PyBool(TRUE)) <=> (ArgH(1) = ArgH(2))

\* is_square() has answered True for equal sides given as 1 and 1.0.
C5_Witness ==
    /\ IsRectangle /\ lastOp = "is_square" /\ ret = PyBool(TRUE)
    /\ ctor.args[1].ty = "int" /\ ctor.args[2].ty = "float"

\* C6: on every polygon edge_count() and vertex_count() are equal integers
\* >= 3: 4 on a Rectangle, 3 on a Triangle, whatever the sides.
C6_EdgeVertexCount ==
    (obj.cls # "None" /\ IsPolygon(obj))
        => \A op \in {"edge_count", "vertex_count"} :
              /\ seen[op].done
                   => /\ seen[op].exc = "None"
                      /\ seen[op].ret =
                            PyInt(IF obj.cls = "Rectangle" THEN 4 ELSE 3)
                      /\ seen[op].ret.m >= 3
                      /\ seen["edge_count"].done
                            => seen[op].ret = seen["edge_count"].ret
              /\ lastOp = op => (exc = seen[op].exc /\ ret = seen[op].ret)

\* Both counts taken on an invalid triangle.
C6_Witness ==
    /\ IsTriangle /\ ~TriangleInequality
    /\ seen["edge_count"].done /\ lastOp = "vertex_count"

\* C7: for sides satisfying the triangle inequality perimeter() is a+b+c and
\* area() is Heron's value: 16 * area^2 = (a+b+c)(-a+b+c)(a-b+c)(a+b-c);
\* Triangle(3, 4, 5) has perimeter 12 and area exactly 6.
C7_TrianglePerimeterArea ==
    (IsTriangle /\ TriangleInequality)
        => /\ lastOp = "perimeter"
                => /\ exc = "None" /\ IsPlain(ret)
                   /\ Scaled(ret, 1) = ArgH(1) + ArgH(2) + ArgH(3)
           /\ lastOp = "area"
                => /\ exc = "None" /\ IsNumber(ret) /\ ret.p = 0
                   /\ Scaled(Square(ret), 8) = Heron256
                   /\ ret.m >= 0
           /\ (ctor.args = <<PyInt(3), PyInt(4), PyInt(5)>> /\ lastOp = "perimeter")
                => ret = PyInt(12)
           /\ (ctor.args = <<PyInt(3), PyInt(4), PyInt(5)>> /\ lastOp = "area")
                => (PyEq(ret, PyInt(6)) /\ ret.ty = "float")

\* Triangle(3, 4, 5) after perimeter() and area().
C7_Witness ==
    /\ IsTriangle /\ ctor.args = <<PyInt(3), PyInt(4), PyInt(5)>>
    /\ seen["perimeter"].done /\ lastOp = "area" /\ PyEq(ret, PyInt(6))

\* C8: for r >= 0 Circle(r) stores r, diameter() is 2r, perimeter() is
\* 2*pi*r = pi * diameter(), area() is pi*r*r; Circle(7) has radius 7,
\* diameter 14, perimeter 14*pi and area 49*pi.
C8_Circle ==
    (ctor.cls = "Circle" /\ IsNumber(ctor.args[1]) /\ ArgH(1) >= 0)
        => /\ obj.cls = "Circle" /\ obj.radius = ctor.args[1]
           /\ lastOp = "diameter"
                => /\ exc = "None" /\ IsPlain(ret)
                   /\ Scaled(ret, 1) = 2 * ArgH(1)
           /\ lastOp = "perimeter"
                => /\ exc = "None" /\ ret.p = 1 /\ ~ret.rt
                   /\ Scaled(ret, 1) = 2 * ArgH(1)
           /\ lastOp = "area"
                => /\ exc = "None" /\ ret.p = 1 /\ ~ret.rt
                   /\ Scaled(ret, 2) = ArgH(1) * ArgH(1)
           /\ (seen["perimeter"].done /\ seen["diameter"].done)
                => PyEq(seen["perimeter"].ret, PyMul(math_pi, seen["diameter"].ret))
           /\ ctor.args[1] = PyInt(7)
                => /\ obj.radius = PyInt(7)
                   /\ lastOp = "diameter" => ret = PyInt(14)
                   /\ lastOp = "perimeter" => ret = PyVal("float", 14, 0, 1, FALSE)
                   /\ lastOp = "area" => ret = PyVal("float", 49, 0, 1, FALSE)

\* Circle(7) after diameter(), perimeter() and area().
C8_Witness ==
    /\ IsCircle /\ ctor.args[1] = PyInt(7)
    /\ seen["diameter"].done /\ seen["perimeter"].done /\ lastOp = "area"

\* C9: no method changes an attribute, and a repeated call returns what the
\* first call returned (or raises what it raised).
C9_ImmutableAndPure ==
    /\ IsCircle => obj = [cls |-> "Circle", radius |-> ctor.args[1]]
    /\ IsRectangle
         => obj = [cls |-> "Rectangle", width |-> ctor.args[1],
                   height |-> ctor.args[2]]
    /\ IsTriangle
         => obj = [cls |-> "Triangle", side_a |-> ctor.args[1],
                   side_b |-> ctor.args[2], side_c |-> ctor.args[3]]
    /\ lastOp \in AllMethods
         => /\ seen[lastOp].done
            /\ seen[lastOp].exc = exc
            /\ seen[lastOp].ret = ret

\* A repeated, failing area() on a triangle after every other method ran.
C9_Witness ==
    /\ IsTriangle /\ lastOp = "area" /\ again /\ exc = "ValueError"
    /\ \A op \in Methods("Triangle") : seen[op].done

\* a * b mod 2^16 for a, b in 0 .. MAX_VALUE, by a route of its own: the
\* product itself when one factor is below 2^15, and the product of the
\* complements (2^16 - a)(2^16 - b) otherwise.
RefProduct(a, b) ==
    IF a < 32768 \/ b < 32768
    THEN (a * b) % 65536
    ELSE ((65536 - a) * (65536 - b)) % 65536

\* C10: add and multiply wrap around modulo 2^16.
C10_Wraparound ==
    /\ calcOp = "add"
         => /\ calcRet \in 0 .. MAX_VALUE
            /\ calcRet = (IF calcA + calcB >= 65536 THEN calcA + calcB - 65536
                          ELSE calcA + calcB)
            /\ (calcA = MAX_VALUE /\ calcB = 1) => calcRet = 0
            /\ (calcA = 3 /\ calcB = 4) => calcRet = 7
            /\ calcA + calcB <= MAX_VALUE => calcRet = calcA + calcB
    /\ calcOp = "multiply"
         => /\ calcRet \in 0 .. MAX_VALUE
            /\ calcRet = RefProduct(calcA, calcB)
            /\ (calcA = MAX_VALUE /\ calcB = 2) => calcRet = MAX_VALUE - 1
            /\ (calcA = 3 /\ calcB = 4) => calcRet = 12
            /\ (calcA = 0 \/ calcB <= MAX_VALUE \div calcA)
                 => calcRet = calcA * calcB

\* multiply(MAX_VALUE, 2) has wrapped around.
C10_Witness ==
    calcOp = "multiply" /\ calcA = MAX_VALUE /\ calcB = 2 /\ calcRet = 65534

====
